---- MODULE Spec2Model ----
(***************************************************************************)
(* Model of the snippet view pipeline of BaseSnippetStorage                *)
(* (client/src/components/snippets/view/common/BaseSnippetStorage.tsx,     *)
(* kept in src/client/src/components/snippets/embed/EmbedView.tsx from     *)
(* line 221 on): the filter predicate, the two-tier sort, and the          *)
(* synchronisation of the category / language selection with the URL       *)
(* query parameters.                                                       *)
(*                                                                         *)
(* JavaScript strings are sequences of one-character strings, so that      *)
(* toLowerCase, includes, split, join and localeCompare are computed and   *)
(* not assumed.                                                            *)
(***************************************************************************)
EXTENDS Integers, Sequences, FiniteSets, TLC

VARIABLES
  snippets,             \* prop: the snapshot of the snippet collection
  showFavorites,        \* prop
  includeCodeInSearch,  \* prop (a setting)
  searchTerm,           \* useState("")
  selectedLanguage,     \* useState("")
  sortOrder,            \* useState("newest")
  selectedCategories,   \* useState([])
  searchParams,         \* useSearchParams(): the URL query parameters
  isRecycleView,        \* prop
  onPermanentDeleteAll, \* prop (optional): TRUE when the parent passes it
  isPermanentDeleteAllModalOpen,  \* useState(false)
  deleteAllCalls,       \* the arguments of the calls of onPermanentDeleteAll
  toasts,               \* the toasts raised with addToast
  lastEvent,            \* history: the kind of the event handled last
  importing,            \* SettingsModal: useState(false)
  importProgress,       \* SettingsModal: useState(null)
  importFile,           \* the file of the import run under way
  importPc,             \* where handleImportFile is suspended
  addSnippetCalls,      \* the arguments of the calls of addSnippet
  reloadSnippetsCalls,  \* the number of calls of reloadSnippets
  theme,                \* per component: the theme preference it is given
  prefersDark,          \* window.matchMedia('(prefers-color-scheme: dark)').matches
  effectiveTheme,       \* per component: useState(initial theme)
  listening,            \* the components whose handleChange is subscribed
  requests,             \* per component: its fetches in the order of issue
  error,                \* per component: useState(null)
  embedSnippet,         \* EmbedView: the state snippet, useState(null)
  isOpen,               \* ChangelogModal: prop
  isLoading,            \* ChangelogModal: useState(true)
  releases              \* ChangelogModal: useState([])

dialogVars == <<isRecycleView, onPermanentDeleteAll, isPermanentDeleteAllModalOpen,
                deleteAllCalls, toasts>>

importVars == <<importing, importProgress, importFile, importPc,
                addSnippetCalls, reloadSnippetsCalls>>

themeVars == <<theme, prefersDark, effectiveTheme, listening>>

fetchVars == <<requests, error, embedSnippet, isOpen, isLoading, releases>>

\* the state of EmbedView and of ChangelogModal
componentVars == <<themeVars, fetchVars>>

vars == <<snippets, showFavorites, includeCodeInSearch, searchTerm,
          selectedLanguage, sortOrder, selectedCategories, searchParams,
          dialogVars, lastEvent, importVars, componentVars>>

propVars == <<snippets, showFavorites, includeCodeInSearch>>
urlVars  == <<selectedLanguage, selectedCategories, searchParams>>

----------------------------------------------------------------------------
(* Bounds *)

\* longest snippet collection handed to the view
MaxSnippets == 3
\* longest selectedCategories list the URL model lets a click grow
MaxSelected == 3
\* most calls of onPermanentDeleteAll recorded
MaxCalls == 2
\* most fetches a component issues
MaxFetches == 3
\* most toasts recorded
MaxToasts == 2

----------------------------------------------------------------------------
(* JavaScript string primitives *)

Range(seq) == { seq[i] : i \in 1..Len(seq) }

UpperChars == <<"A", "B", "C", "D", "E", "F", "G", "H", "I", "J", "K", "L", "M",
                "N", "O", "P", "Q", "R", "S", "T", "U", "V", "W", "X", "Y", "Z">>
LowerChars == <<"a", "b", "c", "d", "e", "f", "g", "h", "i", "j", "k", "l", "m",
                "n", "o", "p", "q", "r", "s", "t", "u", "v", "w", "x", "y", "z">>

\* upper-case letter -> lower-case letter
LowerOf == [c \in Range(UpperChars) |->
              LowerChars[CHOOSE i \in 1..Len(UpperChars) : UpperChars[i] = c]]

\* String.prototype.toLowerCase, one character
LowerChar(c) == IF c \in DOMAIN LowerOf THEN LowerOf[c] ELSE c

\* String.prototype.toLowerCase
ToLowerCase(s) == [i \in 1..Len(s) |-> LowerChar(s[i])]

\* String.prototype.includes: t occurs in s as a contiguous substring
Includes(s, t) ==
  \E i \in 0..(Len(s) - Len(t)) : SubSeq(s, i + 1, i + Len(t)) = t

\* Array.prototype.includes
ArrayIncludes(arr, x) == \E i \in 1..Len(arr) : arr[i] = x

\* Array.prototype.join(",")
RECURSIVE Join(_)
Join(arr) ==
  IF Len(arr) = 0 THEN <<>>
  ELSE IF Len(arr) = 1 THEN arr[1]
  ELSE arr[1] \o <<",">> \o Join(Tail(arr))

\* String.prototype.split(","): an empty string splits into one empty entry
RECURSIVE Split(_)
Split(s) ==
  IF \A i \in 1..Len(s) : s[i] # ","
  THEN <<s>>
  ELSE LET k == CHOOSE i \in 1..Len(s) :
                  s[i] = "," /\ \A j \in 1..(i - 1) : s[j] # ","
       IN  <<SubSeq(s, 1, k - 1)>> \o Split(SubSeq(s, k + 1, Len(s)))

\* rank of a character in the collation order: letters by alphabet position,
\* everything else before the letters
RankOf == [c \in Range(LowerChars) |->
             CHOOSE i \in 1..Len(LowerChars) : LowerChars[i] = c]
CharRank(c) == IF c \in DOMAIN RankOf THEN RankOf[c] ELSE 0

\* lexicographic comparison of two sequences of numbers: -1, 0 or 1
RECURSIVE LexCompare(_, _)
LexCompare(x, y) ==
  IF Len(x) = 0 /\ Len(y) = 0 THEN 0
  ELSE IF Len(x) = 0 THEN -1
  ELSE IF Len(y) = 0 THEN 1
  ELSE IF x[1] < y[1] THEN -1
  ELSE IF x[1] > y[1] THEN 1
  ELSE LexCompare(Tail(x), Tail(y))

\* String.prototype.localeCompare (default collation, Latin letters): the
\* letters decide first, whatever their case; on equal letters the first
\* difference of case decides, lower case before upper case
LocaleCompare(s, t) ==
  LET ls == ToLowerCase(s)
      lt == ToLowerCase(t)
      primary == LexCompare([i \in 1..Len(ls) |-> CharRank(ls[i])],
                            [i \in 1..Len(lt) |-> CharRank(lt[i])])
      caseOf(u) == [i \in 1..Len(u) |-> IF LowerChar(u[i]) = u[i] THEN 0 ELSE 1]
  IN  IF primary # 0 THEN primary ELSE LexCompare(caseOf(s), caseOf(t))

----------------------------------------------------------------------------
(* new Date(updated_at).getTime() for the date-only form YYYY-MM-DD *)

Digits == <<"0", "1", "2", "3", "4", "5", "6", "7", "8", "9">>
DigitVal(c) == (CHOOSE i \in 1..10 : Digits[i] = c) - 1

RECURSIVE ParseInt(_)
ParseInt(s) ==
  IF Len(s) = 0 THEN 0
  ELSE 10 * ParseInt(SubSeq(s, 1, Len(s) - 1)) + DigitVal(s[Len(s)])

\* days from 1970-01-01 to the civil date y-m-d (proleptic Gregorian)
DaysFromCivil(y, m, d) ==
  LET yy  == IF m <= 2 THEN y - 1 ELSE y
      era == yy \div 400
      yoe == yy - era * 400
      mp  == (m + 9) % 12
      doy == (153 * mp + 2) \div 5 + d - 1
      doe == yoe * 365 + yoe \div 4 - yoe \div 100 + doy
  IN  era * 146097 + doe - 719468

\* getTime() of a date-only timestamp is UTC midnight of that day; the model
\* counts it in days (milliseconds / 86400000) so that it fits TLC's integers
GetTime(updated_at) ==
  DaysFromCivil(ParseInt(SubSeq(updated_at, 1, 4)),
                ParseInt(SubSeq(updated_at, 6, 7)),
                ParseInt(SubSeq(updated_at, 9, 10)))

----------------------------------------------------------------------------
(* Array.prototype.sort() without a comparator, new Set(...) *)

\* the UTF-16 code unit of a character
CodeOf ==
  [c \in Range(UpperChars) \cup Range(LowerChars) \cup Range(Digits)
           \cup {",", "-", "."} |->
     IF c \in Range(UpperChars)
     THEN 64 + (CHOOSE i \in 1..Len(UpperChars) : UpperChars[i] = c)
     ELSE IF c \in Range(LowerChars)
     THEN 96 + (CHOOSE i \in 1..Len(LowerChars) : LowerChars[i] = c)
     ELSE IF c \in Range(Digits)
     THEN 47 + (CHOOSE i \in 1..Len(Digits) : Digits[i] = c)
     ELSE IF c = "," THEN 44 ELSE IF c = "-" THEN 45 ELSE 46]

\* the comparison sort() uses when it is given no comparator: the strings
\* by their UTF-16 code units
CodeUnitCompare(s, t) ==
  LexCompare([i \in 1..Len(s) |-> CodeOf[s[i]]], [i \in 1..Len(t) |-> CodeOf[t[i]]])

\* Array.prototype.sort() of an array of strings
RECURSIVE DefaultSort(_)
DefaultSort(arr) ==
  IF Len(arr) = 0 THEN <<>>
  ELSE LET rest  == DefaultSort(SubSeq(arr, 1, Len(arr) - 1))
           x     == arr[Len(arr)]
           later == { i \in 1..Len(rest) : CodeUnitCompare(rest[i], x) > 0 }
           k     == IF later = {} THEN Len(rest) + 1
                    ELSE CHOOSE i \in later : \A j \in later : i <= j
       IN  SubSeq(rest, 1, k - 1) \o <<x>> \o SubSeq(rest, k, Len(rest))

\* Array.from(new Set(arr)): the distinct entries in the order of their
\* first occurrence
RECURSIVE SetToArray(_)
SetToArray(arr) ==
  IF Len(arr) = 0 THEN <<>>
  ELSE LET before == SetToArray(SubSeq(arr, 1, Len(arr) - 1))
       IN  IF ArrayIncludes(before, arr[Len(arr)]) THEN before
           ELSE Append(before, arr[Len(arr)])

\* Array.prototype.flatMap over an array of arrays
RECURSIVE Flatten(_)
Flatten(arrs) == IF Len(arrs) = 0 THEN <<>> ELSE arrs[1] \o Flatten(Tail(arrs))

----------------------------------------------------------------------------
(* The language-label normalisation of utils/language/languageUtils *)

sPython     == <<"P", "y", "t", "h", "o", "n">>
sJavaScript == <<"J", "a", "v", "a", "S", "c", "r", "i", "p", "t">>
sGo         == <<"G", "o">>

\* raw language identifier -> display label; an identifier the table does not
\* know is shown as it is
getLanguageLabel(language) ==
  IF ToLowerCase(language) = ToLowerCase(sPython) THEN sPython
  ELSE IF ToLowerCase(language) = ToLowerCase(sJavaScript) THEN sJavaScript
  ELSE IF ToLowerCase(language) = ToLowerCase(sGo) THEN sGo
  ELSE language

----------------------------------------------------------------------------
(* The snippet records the view is given *)

Fragment(f, l, c) == [file_name |-> f, language |-> l, code |-> c]

catA  == <<"a">>
catB  == <<"b">>
catC  == <<"c">>
catUA == <<"A">>
catUB == <<"B">>

S1 == [id |-> 1, title |-> <<"A", "l", "p", "h", "a">>, description |-> <<>>,
       fragments |-> <<Fragment(<<"m", "a", "i", "n">>,
                                <<"p", "y", "t", "h", "o", "n">>, <<"a", "b">>)>>,
       categories |-> <<catA, catB>>,
       is_pinned |-> 1, is_favorite |-> 1,
       updated_at |-> <<"2", "0", "2", "4", "-", "0", "1", "-", "0", "1">>]

S2 == [id |-> 2, title |-> <<"B", "e", "t", "a">>,
       description |-> <<"c", "o", "p", "y">>,
       fragments |-> <<Fragment(<<"i", "n", "d", "e", "x">>,
                                <<"j", "a", "v", "a", "s", "c", "r", "i", "p", "t">>,
                                <<>>)>>,
       categories |-> <<catA, catC>>,
       is_pinned |-> 0, is_favorite |-> 0,
       updated_at |-> <<"2", "0", "2", "4", "-", "0", "3", "-", "0", "1">>]

S3 == [id |-> 3, title |-> <<"G", "a", "m", "m", "a">>, description |-> <<>>,
       fragments |-> <<Fragment(<<"a", ".", "p", "y">>, <<"t", "e", "x", "t">>, <<>>),
                       Fragment(<<"b">>,
                                <<"j", "a", "v", "a", "s", "c", "r", "i", "p", "t">>,
                                <<>>)>>,
       categories |-> <<catC, catA, catB>>,
       is_pinned |-> 1, is_favorite |-> 0,
       updated_at |-> <<"2", "0", "2", "4", "-", "0", "2", "-", "0", "1">>]

S4 == [id |-> 4, title |-> <<"a", "l", "p", "h", "a">>, description |-> <<>>,
       fragments |-> <<Fragment(<<"x">>, <<"g", "o">>, <<"s", "p", "y">>)>>,
       categories |-> <<catUA, catC, catUB>>,
       is_pinned |-> 0, is_favorite |-> 1,
       updated_at |-> <<"2", "0", "2", "4", "-", "0", "1", "-", "1", "5">>]

SnippetPool == {S1, S2, S3, S4}

\* the snapshots of the collection: sequences of snippets with distinct ids
Collections ==
  UNION { { c \in [1..n -> SnippetPool] :
              \A i, j \in 1..n : i # j => c[i].id # c[j].id } : n \in 0..MaxSnippets }

SearchTerms     == { <<>>, <<"P", "Y">>, <<"A", "L">> }
LanguageChoices == { <<>>, <<"P", "Y", "T", "H", "O", "N">>, sJavaScript }
SortOrders      == { "newest", "oldest", "alpha-asc", "alpha-desc" }
Categories      == { catA, catC }

----------------------------------------------------------------------------
(* filteredSnippets: the filter predicate *)

\* FavoriteMatch testing the pin flag instead of the favorite flag
FavoriteMatchWrongFlag(snippet, fav) == ~(fav /\ snippet.is_pinned # 1)

\* if (showFavorites && snippet.is_favorite !== 1) return false
FavoriteMatch(snippet, fav) == ~(fav /\ snippet.is_favorite # 1)

\* title or description contains the lower-cased search term
BasicMatch(snippet, search) ==
  \/ Includes(ToLowerCase(snippet.title), search)
  \/ Includes(ToLowerCase(snippet.description), search)

\* FragmentMatch searching the code whatever includeCodeInSearch says
FragmentMatchAlwaysCode(snippet, search, incl) ==
  \E i \in 1..Len(snippet.fragments) :
    LET fragment == snippet.fragments[i]
    IN  \/ Includes(ToLowerCase(fragment.file_name), search)
        \/ Includes(ToLowerCase(getLanguageLabel(fragment.language)), search)
        \/ Includes(ToLowerCase(fragment.code), search)

\* one fragment's file name, language label or (if enabled) code contains it
FragmentMatch(snippet, search, incl) ==
  \E i \in 1..Len(snippet.fragments) :
    LET fragment == snippet.fragments[i]
    IN  \/ Includes(ToLowerCase(fragment.file_name), search)
        \/ Includes(ToLowerCase(getLanguageLabel(fragment.language)), search)
        \/ (incl /\ Includes(ToLowerCase(fragment.code), search))

\* the text predicate of the filter: basicMatch || fragmentMatch
TextMatch(snippet, term, incl) ==
  LET search == ToLowerCase(term)
  IN  BasicMatch(snippet, search) \/ FragmentMatch(snippet, search, incl)

\* LanguageMatch without the test for an empty selection
LanguageMatchNoEmptyTest(snippet, lang) ==
  \E i \in 1..Len(snippet.fragments) :
    ToLowerCase(getLanguageLabel(snippet.fragments[i].language))
      = ToLowerCase(lang)

\* LanguageMatch comparing the label and the selection as they are written
LanguageMatchCaseSensitive(snippet, lang) ==
  \/ lang = <<>>
  \/ \E i \in 1..Len(snippet.fragments) :
       getLanguageLabel(snippet.fragments[i].language) = lang

LanguageMatch(snippet, lang) ==
  \/ lang = <<>>
  \/ \E i \in 1..Len(snippet.fragments) :
       ToLowerCase(getLanguageLabel(snippet.fragments[i].language))
         = ToLowerCase(lang)

\* CategoryMatch with some() in place of every()
CategoryMatchAny(snippet, cats) ==
  \/ Len(cats) = 0
  \/ \E i \in 1..Len(cats) : ArrayIncludes(snippet.categories, cats[i])

CategoryMatch(snippet, cats) ==
  \/ Len(cats) = 0
  \/ \A i \in 1..Len(cats) : ArrayIncludes(snippet.categories, cats[i])

\* the callback given to snippets.filter
FilterPredicate(snippet, term, lang, cats, fav, incl) ==
  IF ~FavoriteMatch(snippet, fav) THEN FALSE
  ELSE /\ TextMatch(snippet, term, incl)
       /\ LanguageMatch(snippet, lang)
       /\ CategoryMatch(snippet, cats)

----------------------------------------------------------------------------
(* filteredSnippets: the sort *)

\* the switch on sortOrder at the end of the comparator
CompareByOrder(a, b, order) ==
  CASE order = "newest"     -> GetTime(b.updated_at) - GetTime(a.updated_at)
    [] order = "oldest"     -> GetTime(a.updated_at) - GetTime(b.updated_at)
    [] order = "alpha-asc"  -> LocaleCompare(a.title, b.title)
    [] order = "alpha-desc" -> LocaleCompare(b.title, a.title)
    [] OTHER                -> 0

\* the comparator with the pin difference taken the other way round
CompareSnippetsPinnedLast(a, b, order) ==
  IF a.is_pinned # b.is_pinned THEN a.is_pinned - b.is_pinned
  ELSE IF a.is_pinned = 1 /\ b.is_pinned = 1
       THEN GetTime(b.updated_at) - GetTime(a.updated_at)
  ELSE CompareByOrder(a, b, order)

\* the comparator without the branch for two pinned snippets
CompareSnippetsOrderForAll(a, b, order) ==
  IF a.is_pinned # b.is_pinned THEN b.is_pinned - a.is_pinned
  ELSE CompareByOrder(a, b, order)

\* the comparator with two pinned snippets compared oldest first
CompareSnippetsPinnedOldestFirst(a, b, order) ==
  IF a.is_pinned # b.is_pinned THEN b.is_pinned - a.is_pinned
  ELSE IF a.is_pinned = 1 /\ b.is_pinned = 1
       THEN GetTime(a.updated_at) - GetTime(b.updated_at)
  ELSE CompareByOrder(a, b, order)

\* the comparator with the "oldest" case a copy of the "newest" case
CompareSnippetsOldestAsNewest(a, b, order) ==
  IF a.is_pinned # b.is_pinned THEN b.is_pinned - a.is_pinned
  ELSE IF a.is_pinned = 1 /\ b.is_pinned = 1
       THEN GetTime(b.updated_at) - GetTime(a.updated_at)
  ELSE IF order = "oldest" THEN CompareByOrder(a, b, "newest")
  ELSE CompareByOrder(a, b, order)

\* the comparator given to sort: negative puts a first, positive puts b first
CompareSnippets(a, b, order) ==
  IF a.is_pinned # b.is_pinned THEN b.is_pinned - a.is_pinned
  ELSE IF a.is_pinned = 1 /\ b.is_pinned = 1
       THEN GetTime(b.updated_at) - GetTime(a.updated_at)
  ELSE CompareByOrder(a, b, order)

\* x put in front of the elements that compare equal to it: a sort that is
\* not stable
InsertSortedBeforeEqual(s, x, order) ==
  LET later == { i \in 1..Len(s) : CompareSnippets(s[i], x, order) >= 0 }
      k     == IF later = {} THEN Len(s) + 1
               ELSE CHOOSE i \in later : \A j \in later : i <= j
  IN  SubSeq(s, 1, k - 1) \o <<x>> \o SubSeq(s, k, Len(s))

\* x put into the sorted sequence s, behind every element that does not
\* compare greater than it
InsertSorted(s, x, order) ==
  LET later == { i \in 1..Len(s) : CompareSnippets(s[i], x, order) > 0 }
      k     == IF later = {} THEN Len(s) + 1
               ELSE CHOOSE i \in later : \A j \in later : i <= j
  IN  SubSeq(s, 1, k - 1) \o <<x>> \o SubSeq(s, k, Len(s))

\* Array.prototype.sort with the comparator: a stable sort (ECMAScript 2019)
RECURSIVE SortSnippets(_, _)
SortSnippets(s, order) ==
  IF Len(s) = 0 THEN <<>>
  ELSE InsertSorted(SortSnippets(SubSeq(s, 1, Len(s) - 1), order), s[Len(s)], order)

\* Array.prototype.filter with the filter predicate
Filtered(snips, term, lang, cats, fav, incl) ==
  SelectSeq(snips, LAMBDA x : FilterPredicate(x, term, lang, cats, fav, incl))

\* the useMemo that computes filteredSnippets
FilteredSnippets(snips, term, lang, cats, order, fav, incl) ==
  SortSnippets(Filtered(snips, term, lang, cats, fav, incl), order)

\* filteredSnippets of the current render
filteredSnippets ==
  FilteredSnippets(snippets, searchTerm, selectedLanguage, selectedCategories,
                   sortOrder, showFavorites, includeCodeInSearch)

----------------------------------------------------------------------------
(* The facet lists *)

\* the useMemo of languages: the labels of all fragments of all snippets
Languages(snips) ==
  DefaultSort(SetToArray(Flatten(
    [i \in 1..Len(snips) |->
       [k \in 1..Len(snips[i].fragments) |->
          getLanguageLabel(snips[i].fragments[k].language)]])))

\* the useMemo of allCategories
AllCategories(snips) ==
  DefaultSort(SetToArray(Flatten([i \in 1..Len(snips) |-> snips[i].categories])))

\* the facet lists of the current render: both memos depend on [snippets]
languages == Languages(snippets)
allCategories == AllCategories(snippets)

----------------------------------------------------------------------------
(* The arrays of one render: which array each step of the memos builds and  *)
(* which it writes                                                          *)

\* the arrays alive while the memos are computed: the array of the snippets
\* prop and the arrays the three memos return
Arrays(snips) ==
  [snippets |-> snips, languages |-> <<>>, allCategories |-> <<>>, result |-> <<>>]

\* Array.from(langSet).sort(): a new array, sorted in place
LanguagesStep(arrays) ==
  [arrays EXCEPT !.languages = Languages(arrays.snippets)]

\* [...new Set(snippets.flatMap(...))].sort(): a new array, sorted in place
AllCategoriesStep(arrays) ==
  [arrays EXCEPT !.allCategories = AllCategories(arrays.snippets)]

\* snippets.filter(...): a new array; the receiver is only read
FilterStep(arrays, term, lang, cats, fav, incl) ==
  [arrays EXCEPT !.result = Filtered(arrays.snippets, term, lang, cats, fav, incl)]

\* the sort called on the prop's array as well
SortStepOnSnippets(arrays, order) ==
  [arrays EXCEPT !.snippets = SortSnippets(arrays.snippets, order),
                 !.result = SortSnippets(arrays.result, order)]

\* .sort(comparator) sorts its receiver in place: the array filter returned
SortStep(arrays, order) ==
  [arrays EXCEPT !.result = SortSnippets(arrays.result, order)]

\* the three memos, in the order of the component body
RenderArrays(snips, term, lang, cats, order, fav, incl) ==
  SortStep(FilterStep(AllCategoriesStep(LanguagesStep(Arrays(snips))),
                      term, lang, cats, fav, incl),
           order)

\* the arrays after the current render
renderArrays ==
  RenderArrays(snippets, searchTerm, selectedLanguage, selectedCategories,
               sortOrder, showFavorites, includeCodeInSearch)

----------------------------------------------------------------------------
(* The URL query parameters and the handlers that rewrite them *)

\* one query parameter: absent, or present with a value
NoParam    == [present |-> FALSE, value |-> <<>>]
Param(v)   == [present |-> TRUE, value |-> v]
\* a string is truthy when it is not null and not empty
Truthy(p)  == p.present /\ p.value # <<>>

NoParams == [categories |-> NoParam, language |-> NoParam]

\* the toggle that appends the category whether or not it is selected
ToggleCategoryAlwaysAppend(prev, category) == Append(prev, category)

\* the toggle inside the setSelectedCategories updater
ToggleCategory(prev, category) ==
  IF ArrayIncludes(prev, category)
  THEN SelectSeq(prev, LAMBDA c : c # category)
  ELSE Append(prev, category)

\* handleCategoryClick setting the categories parameter for an empty list too
CategoryClickParamsAlwaysSet(updatedCategories, language) ==
  [categories |-> Param(Join(updatedCategories)),
   language   |-> IF language # <<>> THEN Param(language) ELSE NoParam]

\* handleCategoryClick writing the categories parameter only
CategoryClickParamsDropsLanguage(updatedCategories, language) ==
  [categories |-> IF Len(updatedCategories) > 0
                  THEN Param(Join(updatedCategories)) ELSE NoParam,
   language   |-> NoParam]

\* the params object handleCategoryClick gives to setSearchParams
CategoryClickParams(updatedCategories, language) ==
  [categories |-> IF Len(updatedCategories) > 0
                  THEN Param(Join(updatedCategories)) ELSE NoParam,
   language   |-> IF language # <<>> THEN Param(language) ELSE NoParam]

\* the params object handleLanguageChange gives to setSearchParams
LanguageChangeParams(cats, language) ==
  [categories |-> IF Join(cats) # <<>> THEN Param(Join(cats)) ELSE NoParam,
   language   |-> IF language # <<>> THEN Param(language) ELSE NoParam]

\* the categories effect taking the parameter as one entry
CategoriesEffectNoSplit(params, current) ==
  IF Truthy(params.categories) THEN <<params.categories.value>> ELSE current

\* the categories effect acting only while the state has its default
CategoriesEffectOnlyFromDefault(params, current) ==
  IF Truthy(params.categories) /\ current = <<>>
  THEN Split(params.categories.value) ELSE current

\* useEffect on [searchParams]: seed selectedCategories from the URL
CategoriesEffect(params, current) ==
  IF Truthy(params.categories) THEN Split(params.categories.value) ELSE current

\* useEffect on [searchParams]: seed selectedLanguage from the URL
LanguageEffect(params, current) ==
  IF Truthy(params.language) THEN params.language.value ELSE current

----------------------------------------------------------------------------
(* The toasts, and the settings modal before any import *)

\* addToast(message, type); args are the numbers a template message holds
Toast(message, type, args) == [message |-> message, type |-> type, args |-> args]

\* no import progress (null)
NoProgress == [total |-> 0, current |-> 0, succeeded |-> 0, failed |-> 0, errors |-> <<>>,
               shown |-> FALSE]

\* no file in the file input
NoFile == [wellFormed |-> FALSE, kind |-> "undefined", version |-> "undefined",
           snippetsKind |-> "undefined", items |-> <<>>, chosen |-> FALSE]

\* the import state of SettingsModal when no import has run
ImportIdle ==
  /\ importing = FALSE
  /\ importProgress = NoProgress
  /\ importFile = NoFile
  /\ importPc = "idle"
  /\ addSnippetCalls = <<>>
  /\ reloadSnippetsCalls = 0

----------------------------------------------------------------------------
(* EmbedView and ChangelogModal: the effective theme and the fetches *)

Components == {"EmbedView", "ChangelogModal"}
Themes == {"light", "dark", "blue", "system"}

\* mediaQuery.matches ? 'dark' : 'light'
MatchTheme(matches) == IF matches THEN "dark" ELSE "light"

\* EmbedView: the initializer of useState for effectiveTheme
EmbedViewInitialTheme(t, matches) ==
  IF t = "system" THEN MatchTheme(matches) ELSE t

\* ChangelogModal: the initial value of useState for effectiveTheme
ChangelogModalInitialTheme(t, matches) ==
  IF t = "system" THEN MatchTheme(matches) ELSE t

\* EmbedView: useEffect on [theme]; effectiveTheme after the effect has run
EmbedViewThemeEffect(t, current) ==
  IF t # "system" THEN t ELSE current

\* ChangelogModal: useEffect on [theme]; effectiveTheme after the effect
ChangelogModalThemeEffect(t, current) ==
  IF t = "system" THEN current ELSE t

InitialTheme(c, t, matches) ==
  IF c = "EmbedView" THEN EmbedViewInitialTheme(t, matches)
  ELSE ChangelogModalInitialTheme(t, matches)

ThemeEffect(c, t, current) ==
  IF c = "EmbedView" THEN EmbedViewThemeEffect(t, current)
  ELSE ChangelogModalThemeEffect(t, current)

\* both effects subscribe handleChange exactly when the theme is 'system',
\* and their cleanup unsubscribes it
Subscribed(c, t, subscribers) ==
  IF t = "system" THEN subscribers \cup {c} ELSE subscribers \ {c}

\* null, for error and for snippet; a number n stands for the error message
\* or the data of the n-th fetch of the component
Null == 0

\* the components mounted with the given themes, after their first effects:
\* EmbedView has issued its first fetch, ChangelogModal is closed
ComponentsMounted(themes, matches) ==
  /\ theme = themes
  /\ prefersDark = matches
  /\ effectiveTheme =
       [c \in Components |->
          ThemeEffect(c, themes[c], InitialTheme(c, themes[c], matches))]
  /\ listening = { c \in Components : themes[c] = "system" }
  /\ requests = [c \in Components |->
                   IF c = "EmbedView" THEN <<"pending">> ELSE <<>>]
  /\ error = [c \in Components |-> Null]
  /\ embedSnippet = Null
  /\ isOpen = FALSE
  /\ isLoading = TRUE
  /\ releases = <<>>

\* the two components as the other specifications hold them
ComponentsIdle == ComponentsMounted([c \in Components |-> "system"], FALSE)

----------------------------------------------------------------------------
(* The view as a state machine *)

\* the component mounted on a URL without query parameters
Init ==
  /\ snippets \in Collections
  /\ showFavorites = FALSE
  /\ includeCodeInSearch = FALSE
  /\ searchTerm = <<>>
  /\ selectedLanguage = <<>>
  /\ sortOrder = "newest"
  /\ selectedCategories = <<>>
  /\ searchParams = NoParams
  /\ isRecycleView = FALSE
  /\ onPermanentDeleteAll = FALSE
  /\ isPermanentDeleteAllModalOpen = FALSE
  /\ deleteAllCalls = <<>>
  /\ toasts = <<>>
  /\ lastEvent = "mount"
  /\ ImportIdle
  /\ ComponentsIdle

\* the data-fetch collaborator hands the view a new snapshot: the old one
\* with one snippet deleted, or with one snippet created at some position
\* (every snapshot is reached from every other by such steps)
SnapshotRefresh ==
  /\ \/ \E i \in 1..Len(snippets) :
          snippets' = SubSeq(snippets, 1, i - 1) \o SubSeq(snippets, i + 1, Len(snippets))
     \/ /\ Len(snippets) < MaxSnippets
        /\ \E x \in SnippetPool, i \in 0..Len(snippets) :
             /\ \A j \in 1..Len(snippets) : snippets[j].id # x.id
             /\ snippets' = SubSeq(snippets, 1, i) \o <<x>>
                              \o SubSeq(snippets, i + 1, Len(snippets))
  /\ UNCHANGED <<showFavorites, includeCodeInSearch, searchTerm, sortOrder, urlVars>>
  /\ lastEvent' = "input"
  /\ UNCHANGED <<dialogVars, importVars, componentVars>>

\* handleShowFavorites of the parent flips the prop
ToggleShowFavorites ==
  /\ showFavorites' = ~showFavorites
  /\ UNCHANGED <<snippets, includeCodeInSearch, searchTerm, sortOrder, urlVars>>
  /\ lastEvent' = "input"
  /\ UNCHANGED <<dialogVars, importVars, componentVars>>

\* the settings modal flips includeCodeInSearch
ToggleIncludeCode ==
  /\ includeCodeInSearch' = ~includeCodeInSearch
  /\ UNCHANGED <<snippets, showFavorites, searchTerm, sortOrder, urlVars>>
  /\ lastEvent' = "input"
  /\ UNCHANGED <<dialogVars, importVars, componentVars>>

handleSearchTermChange(term) ==
  /\ searchTerm' = term
  /\ UNCHANGED <<propVars, sortOrder, urlVars>>
  /\ lastEvent' = "input"
  /\ UNCHANGED <<dialogVars, importVars, componentVars>>

setSortOrder(order) ==
  /\ sortOrder' = order
  /\ UNCHANGED <<propVars, searchTerm, urlVars>>
  /\ lastEvent' = "input"
  /\ UNCHANGED <<dialogVars, importVars, componentVars>>

\* the state handleCategoryClick leaves once the two effects that the new
\* searchParams trigger have run
AfterCategoryClick(cats, lang, category) ==
  LET updatedCategories == ToggleCategory(cats, category)
      params == CategoryClickParams(updatedCategories, lang)
  IN  [selectedCategories |-> CategoriesEffect(params, updatedCategories),
       selectedLanguage   |-> LanguageEffect(params, lang),
       searchParams       |-> params]

\* the state handleLanguageChange leaves once the two effects have run
AfterLanguageChange(cats, lang, language) ==
  LET params == LanguageChangeParams(cats, language)
  IN  [selectedCategories |-> CategoriesEffect(params, cats),
       selectedLanguage   |-> LanguageEffect(params, language),
       searchParams       |-> params]

\* the state a navigation to another query string leaves: only the two
\* effects run
AfterNavigate(cats, lang, params) ==
  [selectedCategories |-> CategoriesEffect(params, cats),
   selectedLanguage   |-> LanguageEffect(params, lang),
   searchParams       |-> params]

SetUrlState(after) ==
  /\ selectedCategories' = after.selectedCategories
  /\ selectedLanguage' = after.selectedLanguage
  /\ searchParams' = after.searchParams

handleCategoryClick(category) ==
  /\ SetUrlState(AfterCategoryClick(selectedCategories, selectedLanguage, category))
  /\ UNCHANGED <<propVars, searchTerm, sortOrder>>
  /\ lastEvent' = "input"
  /\ UNCHANGED <<dialogVars, importVars, componentVars>>

handleLanguageChange(language) ==
  /\ SetUrlState(AfterLanguageChange(selectedCategories, selectedLanguage, language))
  /\ UNCHANGED <<propVars, searchTerm, sortOrder>>
  /\ lastEvent' = "input"
  /\ UNCHANGED <<dialogVars, importVars, componentVars>>

SearchTermChange == \E term \in SearchTerms : handleSearchTermChange(term)
SortOrderChange  == \E order \in SortOrders : setSortOrder(order)
CategoryClick    == \E category \in Categories : handleCategoryClick(category)
LanguageChange   == \E language \in LanguageChoices : handleLanguageChange(language)

Next ==
  \/ SnapshotRefresh
  \/ ToggleShowFavorites
  \/ ToggleIncludeCode
  \/ SearchTermChange
  \/ SortOrderChange
  \/ CategoryClick
  \/ LanguageChange

Spec == Init /\ [][Next]_vars

----------------------------------------------------------------------------
(* The URL synchronisation on its own: the view of an empty collection,     *)
(* mounted on any of a few query strings, with clicks on any category       *)
(* (one holds a comma, one is empty) and navigations to other query strings *)

catAB    == <<"a", ",", "b">>
catEmpty == <<>>

UrlCategories  == { catA, catB, catC, catAB, catEmpty }
UrlLanguages   == { <<>>, sPython }
UrlCategoryValues == { Join(<<catA>>), Join(<<catA, catB>>), Join(<<catB, catA>>),
                       Join(<<catB, catB>>) }
\* the query strings the view is mounted on or navigated to: each parameter
\* absent, present and empty ("?categories="), or present with a value
UrlParams ==
  [categories : {NoParam, Param(<<>>)} \cup { Param(v) : v \in UrlCategoryValues },
   language   : {NoParam, Param(<<>>), Param(sGo)}]

\* mount: the state defaults, then the two effects on the initial URL
UrlInit ==
  /\ snippets = <<>>
  /\ showFavorites = FALSE
  /\ includeCodeInSearch = FALSE
  /\ searchTerm = <<>>
  /\ isRecycleView = FALSE
  /\ onPermanentDeleteAll = FALSE
  /\ isPermanentDeleteAllModalOpen = FALSE
  /\ deleteAllCalls = <<>>
  /\ toasts = <<>>
  /\ lastEvent = "mount"
  /\ ImportIdle
  /\ ComponentsIdle
  /\ sortOrder = "newest"
  /\ \E params \in UrlParams :
       /\ searchParams = params
       /\ selectedCategories = CategoriesEffect(params, <<>>)
       /\ selectedLanguage = LanguageEffect(params, <<>>)

\* a click on a category; the list is kept within MaxSelected entries
UrlCategoryClick ==
  \E category \in UrlCategories :
    /\ Len(AfterCategoryClick(selectedCategories, selectedLanguage,
                              category).selectedCategories) <= MaxSelected
    /\ handleCategoryClick(category)

UrlLanguageChange == \E language \in UrlLanguages : handleLanguageChange(language)

\* the browser moves to another query string of the same route (a link, the
\* back button): searchParams changes and the effects run
Navigate ==
  \E params \in UrlParams :
    /\ params # searchParams
    /\ SetUrlState(AfterNavigate(selectedCategories, selectedLanguage, params))
    /\ UNCHANGED <<propVars, searchTerm, sortOrder>>
    /\ lastEvent' = "navigate"
    /\ UNCHANGED <<dialogVars, importVars, componentVars>>

UrlNext ==
  \/ UrlCategoryClick
  \/ UrlLanguageChange
  \/ Navigate

SpecUrl == UrlInit /\ [][UrlNext]_vars

----------------------------------------------------------------------------
(* The recycle bin: "Clear all", the confirmation modal and the call of     *)
(* onPermanentDeleteAll                                                     *)

NoSnippetsToast ==
  Toast("No snippets in the recycle bin to clear.", "info", <<>>)

\* openPermanentDeleteAllModal without its guard on the empty collection
AfterOpenPermanentDeleteAllModalNoGuard(snips, modalOpen, shown) ==
  [isOpen |-> TRUE, toasts |-> shown]

\* openPermanentDeleteAllModal: the modal flag and the toasts it leaves
AfterOpenPermanentDeleteAllModal(snips, modalOpen, shown) ==
  IF Len(snips) = 0
    THEN [isOpen |-> modalOpen, toasts |-> Append(shown, NoSnippetsToast)]
    ELSE [isOpen |-> TRUE, toasts |-> shown]

\* handlePermanentDeleteAllConfirm passing what the favorites filter leaves
AfterPermanentDeleteAllConfirmPassesFavorites(snips, given, calls) ==
  [isOpen |-> FALSE,
   calls  |-> IF given
                THEN Append(calls, SelectSeq(snips, LAMBDA x : x.is_favorite = 1))
                ELSE calls]

\* handlePermanentDeleteAllConfirm forgetting to close the modal
AfterPermanentDeleteAllConfirmLeavesModalOpen(snips, given, calls) ==
  [isOpen |-> TRUE, calls |-> IF given THEN Append(calls, snips) ELSE calls]

\* handlePermanentDeleteAllConfirm: the modal flag and the calls it leaves
AfterPermanentDeleteAllConfirm(snips, given, calls) ==
  [isOpen |-> FALSE, calls |-> IF given THEN Append(calls, snips) ELSE calls]

\* ConfirmationModal shows its Cancel and Confirm buttons only while isOpen
ConfirmationModalShown == isPermanentDeleteAllModalOpen

\* mount of the view, in the recycle bin or not, with or without the
\* onPermanentDeleteAll prop
DeleteInit ==
  /\ snippets \in Collections
  /\ showFavorites = FALSE
  /\ includeCodeInSearch = FALSE
  /\ searchTerm = <<>>
  /\ selectedLanguage = <<>>
  /\ sortOrder = "newest"
  /\ selectedCategories = <<>>
  /\ searchParams = NoParams
  /\ isRecycleView \in BOOLEAN
  /\ onPermanentDeleteAll \in BOOLEAN
  /\ isPermanentDeleteAllModalOpen = FALSE
  /\ deleteAllCalls = <<>>
  /\ toasts = <<>>
  /\ lastEvent = "mount"
  /\ ImportIdle
  /\ ComponentsIdle

\* a click on "Clear all", which only the recycle view renders
openPermanentDeleteAllModal ==
  LET after == AfterOpenPermanentDeleteAllModal(snippets,
                 isPermanentDeleteAllModalOpen, toasts)
  IN  /\ isRecycleView
      /\ Len(after.toasts) <= MaxToasts
      /\ isPermanentDeleteAllModalOpen' = after.isOpen
      /\ toasts' = after.toasts
      /\ lastEvent' = "clearAll"
      /\ UNCHANGED <<propVars, searchTerm, sortOrder, urlVars, isRecycleView,
                     onPermanentDeleteAll, deleteAllCalls,
                     importVars, componentVars>>

\* Cancel, or a click outside the modal
closePermanentDeleteAllModal ==
  /\ ConfirmationModalShown
  /\ isPermanentDeleteAllModalOpen' = FALSE
  /\ lastEvent' = "close"
  /\ UNCHANGED <<propVars, searchTerm, sortOrder, urlVars, isRecycleView,
                 onPermanentDeleteAll, deleteAllCalls, toasts,
                     importVars, componentVars>>

\* "Delete Permanently": the handler closes the modal and calls the prop,
\* when given, before it first suspends
handlePermanentDeleteAllConfirm ==
  LET after == AfterPermanentDeleteAllConfirm(snippets, onPermanentDeleteAll,
                                              deleteAllCalls)
  IN  /\ ConfirmationModalShown
      /\ Len(after.calls) <= MaxCalls
      /\ isPermanentDeleteAllModalOpen' = after.isOpen
      /\ deleteAllCalls' = after.calls
      /\ lastEvent' = "confirm"
      /\ UNCHANGED <<propVars, searchTerm, sortOrder, urlVars, isRecycleView,
                     onPermanentDeleteAll, toasts,
                     importVars, componentVars>>

\* the parent hands the view a snapshot with one snippet less (a snippet was
\* restored or deleted for good)
SnippetRemoved ==
  /\ \E i \in 1..Len(snippets) :
       snippets' = SubSeq(snippets, 1, i - 1) \o SubSeq(snippets, i + 1, Len(snippets))
  /\ lastEvent' = "input"
  /\ UNCHANGED <<showFavorites, includeCodeInSearch, searchTerm, sortOrder, urlVars,
                 dialogVars, importVars, componentVars>>

DeleteNext ==
  \/ openPermanentDeleteAllModal
  \/ closePermanentDeleteAllModal
  \/ handlePermanentDeleteAllConfirm
  \/ SnippetRemoved
  \/ ToggleShowFavorites
  \/ SearchTermChange

SpecDelete == DeleteInit /\ [][DeleteNext]_vars

----------------------------------------------------------------------------
(* SettingsModal: the JSON import (src/unnamed/part_002)                    *)
(*                                                                          *)
(* A parsed JSON value is kept by its kind (null, number, string, array,    *)
(* object, or undefined for a missing property), which is all that          *)
(* validateImportData looks at; a snippet keeps its title text as well.     *)

\* the typeof operator
JsTypeof(kind) == IF kind \in {"null", "array", "object"} THEN "object" ELSE kind
\* Array.isArray
IsArray(kind) == kind = "array"
\* !value, for the values of the model (no 0, no "", no false among them)
Falsy(kind) == kind \in {"null", "undefined"}

\* one entry of data.snippets
Item(kind, titleKind, title, fragmentsKind, categoriesKind) ==
  [kind |-> kind, titleKind |-> titleKind, title |-> title,
   fragmentsKind |-> fragmentsKind, categoriesKind |-> categoriesKind]

\* a file whose text is JSON
DataFile(kind, version, snippetsKind, items) ==
  [wellFormed |-> TRUE, kind |-> kind, version |-> version,
   snippetsKind |-> snippetsKind, items |-> items, chosen |-> TRUE]

\* a file whose text is not JSON
BrokenFile ==
  [wellFormed |-> FALSE, kind |-> "undefined", version |-> "undefined",
   snippetsKind |-> "undefined", items |-> <<>>, chosen |-> TRUE]

G1 == Item("object", "string", "T1", "array", "array")
G2 == Item("object", "string", "T2", "array", "array")
NoTitle == Item("object", "undefined", "", "array", "array")
FragmentsNotArray == Item("object", "string", "T3", "object", "array")
NoCategories == Item("object", "string", "T4", "array", "undefined")
NullItem == Item("null", "undefined", "", "undefined", "undefined")
NumberItem == Item("number", "undefined", "", "undefined", "undefined")
ArrayItem == Item("array", "undefined", "", "undefined", "undefined")

\* the files the user may choose
ImportFiles ==
  << BrokenFile,
     DataFile("null", "undefined", "undefined", <<>>),
     DataFile("number", "undefined", "undefined", <<>>),
     DataFile("string", "undefined", "undefined", <<>>),
     DataFile("array", "undefined", "undefined", <<>>),
     DataFile("object", "undefined", "array", <<G1>>),
     DataFile("object", "number", "array", <<G1>>),
     DataFile("object", "string", "undefined", <<>>),
     DataFile("object", "string", "object", <<>>),
     DataFile("object", "string", "array", <<>>),
     DataFile("object", "string", "array", <<G1>>),
     DataFile("object", "string", "array", <<G1, G2>>),
     DataFile("object", "string", "array", <<G2, G1, G2>>),
     DataFile("object", "string", "array", <<G1, NoTitle>>),
     DataFile("object", "string", "array", <<FragmentsNotArray>>),
     DataFile("object", "string", "array", <<NoCategories, G1>>),
     DataFile("object", "string", "array", <<NullItem>>),
     DataFile("object", "string", "array", <<G1, NullItem>>),
     DataFile("object", "string", "array", <<NoTitle, NullItem>>),
     DataFile("object", "string", "array", <<NumberItem>>),
     DataFile("object", "string", "array", <<ArrayItem, G2>>) >>

\* how a call of addSnippet ends
AddSnippetOutcomes == {"resolved", "rejectedError", "rejectedOther"}

\* the callback of data.snippets.every: true, false, or the TypeError of
\* reading .title of null (typeof null is "object")
ValidSnippet(item) ==
  IF JsTypeof(item.kind) # "object" THEN "false"
  ELSE IF item.kind = "null" THEN "TypeError"
  ELSE IF JsTypeof(item.titleKind) # "string" THEN "false"
  ELSE IF ~IsArray(item.fragmentsKind) THEN "false"
  ELSE IF ~IsArray(item.categoriesKind) THEN "false"
  ELSE "true"

\* Array.prototype.every: stops at the first entry that is not valid
RECURSIVE Every(_)
Every(items) ==
  IF items = <<>> THEN "true"
  ELSE LET first == ValidSnippet(Head(items))
       IN  IF first = "true" THEN Every(Tail(items)) ELSE first

\* validateImportData without the test of the entries
validateImportDataTopLevelOnly(data) ==
  IF Falsy(data.kind) \/ JsTypeof(data.kind) # "object" THEN "false"
  ELSE IF JsTypeof(data.version) # "string" THEN "false"
  ELSE IF ~IsArray(data.snippetsKind) THEN "false"
  ELSE "true"

validateImportData(data) ==
  IF Falsy(data.kind) \/ JsTypeof(data.kind) # "object" THEN "false"
  ELSE IF JsTypeof(data.version) # "string" THEN "false"
  ELSE IF ~IsArray(data.snippetsKind) THEN "false"
  ELSE Every(data.items)

\* JSON.parse(content) and validateImportData(importData): "true", or what
\* makes the try block end
ParseAndValidate(file) ==
  IF ~file.wellFormed THEN "SyntaxError" ELSE validateImportData(file)

\* the toast of the catch block
ErrorToast(result) ==
  Toast(CASE result = "false" -> "Invalid import file format"
          [] result = "TypeError" -> "Cannot read properties of null (reading 'title')"
          [] OTHER -> "Unexpected token in JSON",
        "error", <<>>)

\* the toast after the loop
EndToast(progress) ==
  IF progress.failed = 0
  THEN Toast("Successfully imported ${progress.succeeded} snippets", "success",
             <<progress.succeeded>>)
  ELSE Toast("Imported ${progress.succeeded} snippets, ${progress.failed} failed. Check console for details.",
             "warning", <<progress.succeeded, progress.failed>>)

\* the loop body giving up at the first rejection: nothing is left to attempt
ProcessedStopsAtFailure(progress, item, outcome) ==
  IF outcome = "resolved"
  THEN [progress EXCEPT !.succeeded = @ + 1, !.current = @ + 1]
  ELSE [progress EXCEPT
          !.failed = @ + 1,
          !.errors = Append(@, [title |-> item.title,
                                error |-> IF outcome = "rejectedError"
                                          THEN "Request failed" ELSE "Unknown error"]),
          !.current = progress.total]

\* the loop body counting a rejection without recording it
ProcessedErrorNotRecorded(progress, item, outcome) ==
  IF outcome = "resolved"
  THEN [progress EXCEPT !.succeeded = @ + 1, !.current = @ + 1]
  ELSE [progress EXCEPT !.failed = @ + 1, !.current = @ + 1]

\* progress after the call for item has ended with outcome
Processed(progress, item, outcome) ==
  IF outcome = "resolved"
  THEN [progress EXCEPT !.succeeded = @ + 1, !.current = @ + 1]
  ELSE [progress EXCEPT
          !.failed = @ + 1,
          !.errors = Append(@, [title |-> item.title,
                                error |-> IF outcome = "rejectedError"
                                          THEN "Request failed" ELSE "Unknown error"]),
          !.current = @ + 1]

\* what the import leaves alone: the snippet view and its dialog
viewVars == <<propVars, searchTerm, sortOrder, urlVars, isRecycleView,
              onPermanentDeleteAll, isPermanentDeleteAllModalOpen, deleteAllCalls,
              componentVars>>

\* the settings modal opened on a fresh page
ImportInit ==
  /\ snippets = <<>>
  /\ showFavorites = FALSE
  /\ includeCodeInSearch = FALSE
  /\ searchTerm = <<>>
  /\ selectedLanguage = <<>>
  /\ sortOrder = "newest"
  /\ selectedCategories = <<>>
  /\ searchParams = NoParams
  /\ isRecycleView = FALSE
  /\ onPermanentDeleteAll = FALSE
  /\ isPermanentDeleteAllModalOpen = FALSE
  /\ deleteAllCalls = <<>>
  /\ toasts = <<>>
  /\ lastEvent = "mount"
  /\ ImportIdle
  /\ ComponentsIdle

\* resetImportState leaving the progress on screen
resetImportStateKeepsProgress ==
  /\ importing' = FALSE
  /\ importProgress' = importProgress
  /\ importFile' = NoFile

\* resetImportState, of the finally block
resetImportState ==
  /\ importing' = FALSE
  /\ importProgress' = NoProgress
  /\ importFile' = NoFile

\* the end of the loop calling reloadSnippets() whatever failed
FinishImportAlwaysReloads(progress) ==
  /\ toasts' = Append(toasts, EndToast(progress))
  /\ reloadSnippetsCalls' = reloadSnippetsCalls + 1
  /\ resetImportState
  /\ importPc' = "idle"

\* after the loop: the toast, reloadSnippets() when nothing failed, and the
\* finally block
FinishImport(progress) ==
  /\ toasts' = Append(toasts, EndToast(progress))
  /\ reloadSnippetsCalls' =
       IF progress.failed = 0 THEN reloadSnippetsCalls + 1 ELSE reloadSnippetsCalls
  /\ resetImportState
  /\ importPc' = "idle"

\* onChange of the file input, which is disabled while importing: the
\* handler runs up to await file.text()
handleImportFile ==
  \E i \in 1..Len(ImportFiles) :
    /\ ~importing
    /\ Len(toasts) < MaxToasts
    /\ importing' = TRUE
    /\ importFile' = ImportFiles[i]
    /\ importPc' = "reading"
    /\ lastEvent' = "fileChosen"
    /\ UNCHANGED <<viewVars, toasts, importProgress, addSnippetCalls, reloadSnippetsCalls>>

\* file.text() resolves: parse, validate, and either end in the catch block
\* or start the loop, up to the first await addSnippet(...)
FileTextResolved ==
  /\ importPc = "reading"
  /\ LET result == ParseAndValidate(importFile)
         progress == [total |-> Len(importFile.items), current |-> 0, succeeded |-> 0,
                      failed |-> 0, errors |-> <<>>, shown |-> TRUE]
     IN  IF result # "true"
         THEN /\ toasts' = Append(toasts, ErrorToast(result))
              /\ resetImportState
              /\ importPc' = "idle"
              /\ UNCHANGED <<addSnippetCalls, reloadSnippetsCalls>>
         ELSE IF progress.total = 0
         THEN /\ FinishImport(progress)
              /\ UNCHANGED addSnippetCalls
         ELSE /\ importProgress' = progress
              /\ addSnippetCalls' = Append(addSnippetCalls, importFile.items[1])
              /\ importPc' = "adding"
              /\ UNCHANGED <<importing, importFile, reloadSnippetsCalls, toasts>>
  /\ lastEvent' = "fileRead"
  /\ UNCHANGED viewVars

\* the pending addSnippet(snippet, false) resolves or rejects: the progress is
\* updated and the loop goes on to the next await, or ends
AddSnippetSettled ==
  \E outcome \in AddSnippetOutcomes :
    /\ importPc = "adding"
    /\ LET item == importFile.items[importProgress.current + 1]
           progress == Processed(importProgress, item, outcome)
       IN  IF progress.current < progress.total
           THEN /\ importProgress' = progress
                /\ addSnippetCalls' =
                     Append(addSnippetCalls, importFile.items[progress.current + 1])
                /\ UNCHANGED <<importing, importFile, importPc, reloadSnippetsCalls, toasts>>
           ELSE /\ FinishImport(progress)
                /\ UNCHANGED addSnippetCalls
    /\ lastEvent' = IF outcome = "resolved" THEN "addSnippetResolved"
                    ELSE "addSnippetRejected"
    /\ UNCHANGED viewVars

ImportNext ==
  \/ handleImportFile
  \/ FileTextResolved
  \/ AddSnippetSettled

SpecImport == ImportInit /\ [][ImportNext]_vars

----------------------------------------------------------------------------
(* The view over snippets that tie under the comparator: equal dates, equal *)
(* titles                                                                   *)

sTie   == <<"T", "i", "e">>
sOther == <<"O", "t", "h", "e", "r">>
dMay   == <<"2", "0", "2", "4", "-", "0", "5", "-", "0", "1">>
dJune  == <<"2", "0", "2", "4", "-", "0", "6", "-", "0", "1">>

TieSnippet(id, title, pinned, favorite, date) ==
  [id |-> id, title |-> title, description |-> <<>>,
   fragments |-> <<Fragment(<<"x">>, <<"g", "o">>, <<>>)>>,
   categories |-> <<catA>>,
   is_pinned |-> pinned, is_favorite |-> favorite, updated_at |-> date]

\* T1 and T2 tie as pinned; T3 and T4 tie by title only; T3 and T5 by date only
T1 == TieSnippet(5, sTie, 1, 1, dMay)
T2 == TieSnippet(6, sTie, 1, 0, dMay)
T3 == TieSnippet(7, sTie, 0, 1, dMay)
T4 == TieSnippet(8, sTie, 0, 1, dJune)
T5 == TieSnippet(9, sOther, 0, 0, dMay)

TiePool == {T1, T2, T3, T4, T5}

TieCollections ==
  UNION { { c \in [1..n -> TiePool] :
              \A i, j \in 1..n : i # j => c[i].id # c[j].id } : n \in 0..MaxSnippets }

TieInit ==
  /\ snippets \in TieCollections
  /\ showFavorites = FALSE
  /\ includeCodeInSearch = FALSE
  /\ searchTerm = <<>>
  /\ selectedLanguage = <<>>
  /\ sortOrder = "newest"
  /\ selectedCategories = <<>>
  /\ searchParams = NoParams
  /\ isRecycleView = FALSE
  /\ onPermanentDeleteAll = FALSE
  /\ isPermanentDeleteAllModalOpen = FALSE
  /\ deleteAllCalls = <<>>
  /\ toasts = <<>>
  /\ lastEvent = "mount"
  /\ ImportIdle
  /\ ComponentsIdle

TieNext ==
  \/ SnippetRemoved
  \/ ToggleShowFavorites
  \/ SortOrderChange

SpecTies == TieInit /\ [][TieNext]_vars

----------------------------------------------------------------------------
(* EmbedView: theme, colour scheme and fetchSnippet *)

\* what the steps of the two components leave alone
nonComponentVars == <<snippets, showFavorites, includeCodeInSearch, searchTerm,
                      selectedLanguage, sortOrder, selectedCategories, searchParams,
                      dialogVars, importVars>>

ViewIdle ==
  /\ snippets = <<>>
  /\ showFavorites = FALSE
  /\ includeCodeInSearch = FALSE
  /\ searchTerm = <<>>
  /\ selectedLanguage = <<>>
  /\ sortOrder = "newest"
  /\ selectedCategories = <<>>
  /\ searchParams = NoParams
  /\ isRecycleView = FALSE
  /\ onPermanentDeleteAll = FALSE
  /\ isPermanentDeleteAllModalOpen = FALSE
  /\ deleteAllCalls = <<>>
  /\ toasts = <<>>
  /\ lastEvent = "mount"
  /\ ImportIdle

\* EmbedView mounted with any theme under any colour scheme
EmbedInit ==
  /\ ViewIdle
  /\ \E t \in Themes, matches \in BOOLEAN :
       ComponentsMounted([c \in Components |->
                            IF c = "EmbedView" THEN t ELSE "system"], matches)

\* the fetch effect of EmbedView: fetchSnippet() issues one more request
FetchSnippetIssued == [requests EXCEPT !["EmbedView"] = Append(@, "pending")]

\* a prop of the fetch dependency array other than theme changes
EmbedPropsChange ==
  /\ Len(requests["EmbedView"]) < MaxFetches
  /\ requests' = FetchSnippetIssued
  /\ lastEvent' = "propsChange"
  /\ UNCHANGED <<themeVars, error, embedSnippet, isOpen, isLoading, releases,
                 nonComponentVars>>

\* the theme prop of EmbedView changes: the theme effect, and the fetch
\* effect, which has theme among its dependencies
EmbedThemeChange(t) ==
  /\ t # theme["EmbedView"]
  /\ Len(requests["EmbedView"]) < MaxFetches
  /\ theme' = [theme EXCEPT !["EmbedView"] = t]
  /\ effectiveTheme' =
       [effectiveTheme EXCEPT
          !["EmbedView"] = ThemeEffect("EmbedView", t, effectiveTheme["EmbedView"])]
  /\ listening' = Subscribed("EmbedView", t, listening)
  /\ requests' = FetchSnippetIssued
  /\ lastEvent' = "themeChange"
  /\ UNCHANGED <<prefersDark, error, embedSnippet, isOpen, isLoading, releases,
                 nonComponentVars>>

\* the system colour scheme changes: handleChange of every subscriber
handleChange ==
  /\ prefersDark' = ~prefersDark
  /\ effectiveTheme' =
       [c \in Components |->
          IF c \in listening THEN MatchTheme(prefersDark') ELSE effectiveTheme[c]]
  /\ lastEvent' = "colorSchemeChange"
  /\ UNCHANGED <<theme, listening, fetchVars, nonComponentVars>>

\* the n-th fetch of EmbedView answers with a snippet: setSnippet(data)
FetchSnippetResolved(n) ==
  /\ requests["EmbedView"][n] = "pending"
  /\ requests' = [requests EXCEPT !["EmbedView"][n] = "ok"]
  /\ embedSnippet' = n
  /\ lastEvent' = "fetchResolved"
  /\ UNCHANGED <<themeVars, error, isOpen, isLoading, releases, nonComponentVars>>

\* the n-th fetch of EmbedView fails (response not ok, or a rejection):
\* setError(message)
FetchSnippetRejected(n) ==
  /\ requests["EmbedView"][n] = "pending"
  /\ requests' = [requests EXCEPT !["EmbedView"][n] = "failed"]
  /\ error' = [error EXCEPT !["EmbedView"] = n]
  /\ lastEvent' = "fetchRejected"
  /\ UNCHANGED <<themeVars, embedSnippet, isOpen, isLoading, releases, nonComponentVars>>

EmbedNext ==
  \/ EmbedPropsChange
  \/ \E t \in Themes : EmbedThemeChange(t)
  \/ handleChange
  \/ \E n \in 1..Len(requests["EmbedView"]) : FetchSnippetResolved(n)
  \/ \E n \in 1..Len(requests["EmbedView"]) : FetchSnippetRejected(n)

SpecEmbed == EmbedInit /\ [][EmbedNext]_vars

----------------------------------------------------------------------------
(* ChangelogModal: theme, colour scheme and fetchReleases *)

\* 'Failed to load changelog. Please try again later.'
ChangelogError == 1

\* ChangelogModal mounted closed, with any theme under any colour scheme
ChangelogInit ==
  /\ ViewIdle
  /\ \E t \in Themes, matches \in BOOLEAN :
       ComponentsMounted([c \in Components |->
                            IF c = "ChangelogModal" THEN t ELSE "system"], matches)

\* isOpen becomes true: the effect on [isOpen] runs fetchReleases up to
\* its await
ChangelogOpen ==
  /\ ~isOpen
  /\ Len(requests["ChangelogModal"]) < MaxFetches
  /\ isOpen' = TRUE
  /\ isLoading' = TRUE
  /\ error' = [error EXCEPT !["ChangelogModal"] = Null]
  /\ requests' = [requests EXCEPT !["ChangelogModal"] = Append(@, "pending")]
  /\ lastEvent' = "open"
  /\ UNCHANGED <<themeVars, embedSnippet, releases, nonComponentVars>>

\* isOpen becomes false: fetchReleases returns at once
ChangelogClose ==
  /\ isOpen
  /\ isOpen' = FALSE
  /\ lastEvent' = "close"
  /\ UNCHANGED <<themeVars, requests, error, embedSnippet, isLoading, releases,
                 nonComponentVars>>

\* the theme of the context changes: the effect on [theme]
ChangelogThemeChange(t) ==
  /\ t # theme["ChangelogModal"]
  /\ theme' = [theme EXCEPT !["ChangelogModal"] = t]
  /\ effectiveTheme' =
       [effectiveTheme EXCEPT
          !["ChangelogModal"] =
             ThemeEffect("ChangelogModal", t, effectiveTheme["ChangelogModal"])]
  /\ listening' = Subscribed("ChangelogModal", t, listening)
  /\ lastEvent' = "themeChange"
  /\ UNCHANGED <<prefersDark, fetchVars, nonComponentVars>>

\* the n-th fetch answers with the releases: setReleases(data), then the
\* finally block
FetchReleasesResolved(n) ==
  /\ requests["ChangelogModal"][n] = "pending"
  /\ requests' = [requests EXCEPT !["ChangelogModal"][n] = "ok"]
  /\ releases' = <<n>>
  /\ isLoading' = FALSE
  /\ lastEvent' = "fetchResolved"
  /\ UNCHANGED <<themeVars, error, embedSnippet, isOpen, nonComponentVars>>

\* the n-th fetch fails: setError(message), then the finally block
FetchReleasesRejected(n) ==
  /\ requests["ChangelogModal"][n] = "pending"
  /\ requests' = [requests EXCEPT !["ChangelogModal"][n] = "failed"]
  /\ error' = [error EXCEPT !["ChangelogModal"] = ChangelogError]
  /\ isLoading' = FALSE
  /\ lastEvent' = "fetchRejected"
  /\ UNCHANGED <<themeVars, embedSnippet, isOpen, releases, nonComponentVars>>

ChangelogNext ==
  \/ ChangelogOpen
  \/ ChangelogClose
  \/ \E t \in Themes : ChangelogThemeChange(t)
  \/ handleChange
  \/ \E n \in 1..Len(requests["ChangelogModal"]) : FetchReleasesResolved(n)
  \/ \E n \in 1..Len(requests["ChangelogModal"]) : FetchReleasesRejected(n)

SpecChangelog == ChangelogInit /\ [][ChangelogNext]_vars

----------------------------------------------------------------------------
(* What the claims speak of *)

Count(seq, x) == Cardinality({ i \in 1..Len(seq) : seq[i] = x })
Pinned(seq) == SelectSeq(seq, LAMBDA x : x.is_pinned = 1)
Unpinned(seq) == SelectSeq(seq, LAMBDA x : x.is_pinned = 0)

\* no unpinned snippet stands before a pinned one
PinnedFirst(seq) ==
  \A i, j \in 1..Len(seq) :
    i < j => ~(seq[i].is_pinned = 0 /\ seq[j].is_pinned = 1)

\* the pinned snippets stand most recently updated first
PinnedByRecency(seq) ==
  LET p == Pinned(seq)
  IN  \A i, j \in 1..Len(p) :
        i < j => GetTime(p[i].updated_at) >= GetTime(p[j].updated_at)

\* the unpinned snippets stand in the chosen order
UnpinnedByOrder(seq, order) ==
  LET u == Unpinned(seq)
  IN  \A i, j \in 1..Len(u) :
        i < j =>
          CASE order = "newest" -> GetTime(u[i].updated_at) >= GetTime(u[j].updated_at)
            [] order = "oldest" -> GetTime(u[i].updated_at) <= GetTime(u[j].updated_at)
            [] order = "alpha-asc"  -> LocaleCompare(u[i].title, u[j].title) <= 0
            [] order = "alpha-desc" -> LocaleCompare(u[i].title, u[j].title) >= 0

DefaultFilters ==
  /\ searchTerm = <<>>
  /\ selectedLanguage = <<>>
  /\ selectedCategories = <<>>
  /\ ~showFavorites

\* the strings of a snippet the text search looks into
SearchedTexts(snippet, incl) ==
  {snippet.title, snippet.description}
    \cup { snippet.fragments[i].file_name : i \in 1..Len(snippet.fragments) }
    \cup { getLanguageLabel(snippet.fragments[i].language) :
             i \in 1..Len(snippet.fragments) }
    \cup (IF incl THEN { snippet.fragments[i].code : i \in 1..Len(snippet.fragments) }
          ELSE {})

PassesText(snippet) ==
  \E text \in SearchedTexts(snippet, includeCodeInSearch) :
    Includes(ToLowerCase(text), ToLowerCase(searchTerm))

PassesLanguage(snippet) ==
  \/ selectedLanguage = <<>>
  \/ \E i \in 1..Len(snippet.fragments) :
       ToLowerCase(getLanguageLabel(snippet.fragments[i].language))
         = ToLowerCase(selectedLanguage)

PassesCategories(snippet) ==
  Range(selectedCategories) \subseteq Range(snippet.categories)

PassesFavorites(snippet) == showFavorites => snippet.is_favorite = 1

In(out, snippet) == \E i \in 1..Len(out) : out[i] = snippet

\* C1: with an empty search term, no language, no category and showFavorites
\* off, filteredSnippets holds exactly the input snippets (each as often as
\* the input does, so none dropped and none added), in the view's order; the
\* empty collection gives the empty result.
C1_DefaultFiltersKeepEverySnippet ==
  DefaultFilters =>
    LET out == filteredSnippets
    IN  /\ Len(out) = Len(snippets)
        /\ \A x \in SnippetPool : Count(out, x) = Count(snippets, x)
        /\ PinnedFirst(out)
        /\ PinnedByRecency(out)
        /\ UnpinnedByOrder(out, sortOrder)
        /\ (Len(snippets) = 0 => out = <<>>)

C1_Witness ==
  /\ DefaultFilters
  /\ Len(snippets) >= 3
  /\ filteredSnippets # snippets
  /\ Range(filteredSnippets) = Range(snippets)

\* C2: in filteredSnippets every pinned snippet stands before every unpinned
\* one, whatever the sortOrder.
C2_PinnedBeforeUnpinned == PinnedFirst(filteredSnippets)

C2_Witness ==
  /\ sortOrder = "alpha-desc"
  /\ LET out == filteredSnippets
     IN  \E i, j \in 1..Len(snippets) :
           /\ i < j
           /\ snippets[i].is_pinned = 0 /\ snippets[j].is_pinned = 1
           /\ In(out, snippets[i]) /\ In(out, snippets[j])

\* C3: the pinned snippets of filteredSnippets stand most recently updated
\* first, and their order is the same under each of the four sortOrder values.
C3_PinnedOrderIsRecencyForAllOrders ==
  LET shown == Filtered(snippets, searchTerm, selectedLanguage,
                        selectedCategories, showFavorites, includeCodeInSearch)
      pinnedNow == Pinned(SortSnippets(shown, sortOrder))
  IN  /\ PinnedByRecency(pinnedNow)
      /\ \A order \in SortOrders : Pinned(SortSnippets(shown, order)) = pinnedNow

C3_Witness ==
  /\ sortOrder = "oldest"
  /\ Pinned(snippets) = <<S1, S3>>
  /\ Pinned(filteredSnippets) = <<S3, S1>>

\* C4 as claimed: S1 (Alpha, pinned, 2024-01-01), S2 (Beta, unpinned,
\* 2024-03-01), S3 (Gamma, pinned, 2024-02-01) with the default filters and
\* alpha-asc render as S1, S3, S2.
C4_ExampleAsClaimed ==
  (snippets = <<S1, S2, S3>> /\ DefaultFilters /\ sortOrder = "alpha-asc")
    => filteredSnippets = <<S1, S3, S2>>

\* C4 as amended: the three snippets of the example, in whatever order the
\* collection holds them, with the default filters and alpha-asc render as
\* S3, S1, S2: the pinned ones most recently updated first, then the
\* unpinned one.
C4_ExampleRendersPinnedByRecency ==
  (/\ Len(snippets) = 3
   /\ Range(snippets) = {S1, S2, S3}
   /\ DefaultFilters
   /\ sortOrder = "alpha-asc")
    => filteredSnippets = <<S3, S1, S2>>

C4_Witness ==
  /\ snippets = <<S1, S2, S3>>
  /\ DefaultFilters
  /\ sortOrder = "alpha-asc"
  /\ filteredSnippets = <<S3, S1, S2>>

\* C5: the unpinned snippets of filteredSnippets stand in the chosen order:
\* newest by updated_at non-increasing, oldest by updated_at non-decreasing,
\* alpha-asc by title non-decreasing and alpha-desc by title non-increasing
\* under locale comparison.
C5_UnpinnedFollowSortOrder == UnpinnedByOrder(filteredSnippets, sortOrder)

C5_Witness ==
  /\ sortOrder = "alpha-asc"
  /\ Unpinned(snippets) = <<S2, S4>>
  /\ Unpinned(filteredSnippets) = <<S4, S2>>

\* C6: with categories selected, a snippet is in filteredSnippets only if
\* every selected category is, letter for letter, one of its categories; an
\* input snippet that lacks one of them is not in filteredSnippets.
C6_CategoryFilterIsConjunctive ==
  Len(selectedCategories) > 0 =>
    LET out == filteredSnippets
    IN  /\ \A i \in 1..Len(out) :
             \A k \in 1..Len(selectedCategories) :
               selectedCategories[k] \in Range(out[i].categories)
        /\ \A i \in 1..Len(snippets) :
             (\E k \in 1..Len(selectedCategories) :
                selectedCategories[k] \notin Range(snippets[i].categories))
               => ~In(out, snippets[i])

C6_Witness ==
  /\ Range(selectedCategories) = {catA, catC}
  /\ searchTerm = <<>> /\ selectedLanguage = <<>> /\ ~showFavorites
  /\ {S1, S3, S4} \subseteq Range(snippets)
  /\ LET out == filteredSnippets
     IN  ~In(out, S1) /\ ~In(out, S4) /\ In(out, S3)

\* C7: among the snippets that pass the favorites, language and category
\* tests, a snippet is in filteredSnippets exactly if the lower-cased search
\* term is a substring of its lower-cased title, description, a fragment's
\* file name or a fragment's language label, or, only when
\* includeCodeInSearch is on, of a fragment's code.
C7_TextSearchIsCaseInsensitiveSubstring ==
  LET out == filteredSnippets
  IN  \A i \in 1..Len(snippets) :
        (PassesFavorites(snippets[i]) /\ PassesLanguage(snippets[i])
           /\ PassesCategories(snippets[i]))
          => (In(out, snippets[i]) <=> PassesText(snippets[i]))

C7_Witness ==
  /\ searchTerm = <<"P", "Y">>
  /\ ~includeCodeInSearch
  /\ selectedLanguage = <<>> /\ selectedCategories = <<>> /\ ~showFavorites
  /\ {S1, S4} \subseteq Range(snippets)
  /\ LET out == filteredSnippets
     IN  In(out, S1) /\ ~In(out, S4)

\* the state two successive handleCategoryClick(category) leave
TwoClicks(category) ==
  LET one == AfterCategoryClick(selectedCategories, selectedLanguage, category)
  IN  AfterCategoryClick(one.selectedCategories, one.selectedLanguage, category)

HasComma(s) == \E i \in 1..Len(s) : s[i] = ","

C9_FavoritesFilter ==
  LET out == filteredSnippets
      passes(x) == PassesText(x) /\ PassesLanguage(x) /\ PassesCategories(x)
  IN  /\ showFavorites =>
           /\ \A i \in 1..Len(out) : out[i].is_favorite = 1
           /\ \A i \in 1..Len(snippets) :
                (snippets[i].is_favorite = 1 /\ passes(snippets[i]))
                  => In(out, snippets[i])
      /\ ~showFavorites =>
           \A i \in 1..Len(snippets) :
             In(out, snippets[i]) <=> passes(snippets[i])

C9_Witness ==
  /\ showFavorites
  /\ {S2, S4} \subseteq Range(snippets)
  /\ PassesText(S2) /\ PassesLanguage(S2) /\ PassesCategories(S2)
  /\ LET out == filteredSnippets
     IN  In(out, S4) /\ ~In(out, S2)

\* C10: among the snippets that pass the favorites, text and category tests,
\* a snippet is in filteredSnippets exactly if no language is selected or
\* one of its fragments has a language label equal to the selected language
\* when case is ignored.
C10_LanguageFilter ==
  LET out == filteredSnippets
  IN  \A i \in 1..Len(snippets) :
        (PassesFavorites(snippets[i]) /\ PassesText(snippets[i])
           /\ PassesCategories(snippets[i]))
          => (In(out, snippets[i]) <=>
                \/ selectedLanguage = <<>>
                \/ \E k \in 1..Len(snippets[i].fragments) :
                     ToLowerCase(getLanguageLabel(snippets[i].fragments[k].language))
                       = ToLowerCase(selectedLanguage))

C10_Witness ==
  /\ selectedLanguage = <<"P", "Y", "T", "H", "O", "N">>
  /\ searchTerm = <<>> /\ selectedCategories = <<>> /\ ~showFavorites
  /\ {S1, S2} \subseteq Range(snippets)
  /\ LET out == filteredSnippets
     IN  In(out, S1) /\ ~In(out, S2)

\* the letters of two strings compared in alphabet order, case ignored
AlphabetCompare(s, t) ==
  LexCompare([i \in 1..Len(s) |-> CharRank(LowerChar(s[i]))],
             [i \in 1..Len(t) |-> CharRank(LowerChar(t[i]))])

\* C11: whatever the filter state, languages is the set of the language
\* labels of all fragments of all input snippets and allCategories the set of
\* their category tags, each without duplicates and in alphabetical order.
C11_FacetsAreDistinctAndAlphabetical ==
  LET ls == languages
      cs == allCategories
  IN  /\ Range(ls) = UNION { { getLanguageLabel(snippets[i].fragments[k].language) :
                                 k \in 1..Len(snippets[i].fragments) } :
                             i \in 1..Len(snippets) }
      /\ Range(cs) = UNION { Range(snippets[i].categories) : i \in 1..Len(snippets) }
      /\ Cardinality(Range(ls)) = Len(ls)
      /\ Cardinality(Range(cs)) = Len(cs)
      /\ \A i, j \in 1..Len(ls) : i < j => AlphabetCompare(ls[i], ls[j]) <= 0
      /\ \A i, j \in 1..Len(cs) : i < j => AlphabetCompare(cs[i], cs[j]) <= 0

\* C12 (as claimed): every call of onPermanentDeleteAll is given the visible,
\* post-filter collection: its argument is filteredSnippets.
C12_ArgumentIsVisibleCollection ==
  [][deleteAllCalls' # deleteAllCalls =>
       deleteAllCalls' = Append(deleteAllCalls, filteredSnippets)]_vars

\* C12 (amended): every call of onPermanentDeleteAll is given the whole input
\* collection, whatever the filters hide.
C12_ArgumentIsWholeCollection ==
  [][deleteAllCalls' # deleteAllCalls =>
       deleteAllCalls' = Append(deleteAllCalls, snippets)]_vars

\* a confirm has just passed a collection of which the filters hide a part
C12_Witness ==
  LET out == filteredSnippets
  IN  /\ lastEvent = "confirm"
      /\ Len(deleteAllCalls) > 0
      /\ deleteAllCalls[Len(deleteAllCalls)] = snippets
      /\ Len(out) > 0
      /\ Len(out) < Len(snippets)

\* C13: onPermanentDeleteAll is called only by a confirm on the open modal,
\* once per confirm, and the confirm closes the modal; the modal is opened only
\* by a click on "Clear all"; closing the modal calls nothing.
C13_DeleteAllIsGatedByConfirmation ==
  [][/\ deleteAllCalls' # deleteAllCalls =>
          /\ lastEvent' = "confirm"
          /\ isPermanentDeleteAllModalOpen
          /\ Len(deleteAllCalls') = Len(deleteAllCalls) + 1
          /\ SubSeq(deleteAllCalls', 1, Len(deleteAllCalls)) = deleteAllCalls
     /\ lastEvent' = "confirm" => ~isPermanentDeleteAllModalOpen'
     /\ (~isPermanentDeleteAllModalOpen /\ isPermanentDeleteAllModalOpen') =>
          lastEvent' = "clearAll"
     /\ lastEvent' = "close" =>
          /\ deleteAllCalls' = deleteAllCalls
          /\ ~isPermanentDeleteAllModalOpen']_vars

\* a second confirm has called onPermanentDeleteAll and closed the modal
C13_Witness ==
  /\ lastEvent = "confirm"
  /\ Len(deleteAllCalls) = 2
  /\ ~isPermanentDeleteAllModalOpen

\* C14: a click on "Clear all" with an empty collection leaves the modal as
\* it was and calls nothing; it raises the informational toast.
C14_EmptyCollectionGuard ==
  [][(Len(snippets) = 0 /\ lastEvent' = "clearAll") =>
       /\ isPermanentDeleteAllModalOpen' = isPermanentDeleteAllModalOpen
       /\ deleteAllCalls' = deleteAllCalls
       /\ toasts' = Append(toasts, NoSnippetsToast)]_vars

\* "Clear all" was clicked on an empty recycle bin
C14_Witness ==
  /\ lastEvent = "clearAll"
  /\ Len(snippets) = 0
  /\ toasts = <<NoSnippetsToast>>
  /\ ~isPermanentDeleteAllModalOpen
  /\ deleteAllCalls = <<>>

\* C15: handleCategoryClick leaves a categories parameter that is the
\* comma-joined updated list, and none when that list is empty;
\* handleLanguageChange(l) leaves the language parameter l, and none when l
\* is empty.
C15_HandlersRewriteUrl ==
  /\ \A category \in UrlCategories :
       LET updated == ToggleCategory(selectedCategories, category)
           after == AfterCategoryClick(selectedCategories, selectedLanguage, category)
       IN  /\ updated = <<>> => ~after.searchParams.categories.present
           /\ updated # <<>> => after.searchParams.categories = Param(Join(updated))
           /\ Join(after.selectedCategories) = Join(updated)
  /\ \A language \in UrlLanguages :
       LET after == AfterLanguageChange(selectedCategories, selectedLanguage, language)
       IN  /\ language = <<>> => ~after.searchParams.language.present
           /\ language # <<>> => after.searchParams.language = Param(language)
           /\ after.selectedLanguage = language

\* the handlers have emptied the selection of a view mounted with one and
\* chosen a language
C15_Witness ==
  /\ lastEvent = "input"
  /\ selectedCategories = <<>>
  /\ ~searchParams.categories.present
  /\ selectedLanguage = sPython
  /\ searchParams.language = Param(sPython)

\* the comma-separated entries of a parameter value; an empty value has none
Entries(value) == IF value = <<>> THEN <<>> ELSE Split(value)

\* C16: right after mount, selectedCategories holds the entries of the URL's
\* categories parameter and selectedLanguage the value of its language
\* parameter; each has its default ([] / "") when its parameter is absent.
C16_InitialLoadSeedsFromUrl ==
  lastEvent = "mount" =>
    /\ selectedCategories = IF searchParams.categories.present
                            THEN Entries(searchParams.categories.value) ELSE <<>>
    /\ selectedLanguage = IF searchParams.language.present
                          THEN searchParams.language.value ELSE <<>>

\* mounted on ?categories=a,b&language=Go
C16_Witness ==
  /\ lastEvent = "mount"
  /\ searchParams = [categories |-> Param(Join(<<catA, catB>>)), language |-> Param(sGo)]
  /\ selectedCategories = <<catA, catB>>
  /\ selectedLanguage = sGo

\* C17 (as claimed): the parameters are read on mount only: a change of the
\* URL that the view did not make leaves selectedCategories and
\* selectedLanguage as they were.
C17_UrlReadOnceOnMount ==
  [][lastEvent' = "navigate" =>
       UNCHANGED <<selectedCategories, selectedLanguage>>]_vars

\* C17 (amended): after every change of the URL that the view did not make,
\* a non-empty categories parameter replaces selectedCategories by its
\* entries and a non-empty language parameter replaces selectedLanguage; an
\* absent or empty parameter leaves its state as it was.
C17_UrlReadOnEveryChange ==
  [][lastEvent' = "navigate" =>
       /\ selectedCategories' =
            IF searchParams'.categories.present /\ searchParams'.categories.value # <<>>
            THEN Split(searchParams'.categories.value) ELSE selectedCategories
       /\ selectedLanguage' =
            IF searchParams'.language.present /\ searchParams'.language.value # <<>>
            THEN searchParams'.language.value ELSE selectedLanguage]_vars

\* a navigation to ?categories=b,b has replaced the selection and kept the
\* language chosen before
C17_Witness ==
  /\ lastEvent = "navigate"
  /\ searchParams = [categories |-> Param(Join(<<catB, catB>>)), language |-> NoParam]
  /\ selectedCategories = <<catB, catB>>
  /\ selectedLanguage = sPython

\* C20: the state a handler sets is the state a fresh mount seeds from the
\* URL parameters that handler wrote: for every reachable selection, every
\* category clicked and every language chosen, the categories and the
\* language come back as they were set.
C20_UrlRoundTripsFilterState ==
  /\ \A category \in UrlCategories :
       LET updated == ToggleCategory(selectedCategories, category)
           params == CategoryClickParams(updated, selectedLanguage)
       IN  /\ CategoriesEffect(params, <<>>) = updated
           /\ LanguageEffect(params, <<>>) = selectedLanguage
  /\ \A language \in UrlLanguages :
       LET params == LanguageChangeParams(selectedCategories, language)
       IN  /\ CategoriesEffect(params, <<>>) = selectedCategories
           /\ LanguageEffect(params, <<>>) = language

\* C18: after the memos are computed the array of the snippets prop holds the
\* same records in the same order, whatever the filter and sort state; the
\* memos' values are other arrays, and filteredSnippets holds records of the
\* input.
C18_PipelineLeavesInputUnchanged ==
  LET arrays == renderArrays
  IN  /\ arrays.snippets = snippets
      /\ Range(arrays.result) \subseteq Range(snippets)
      /\ arrays.result = filteredSnippets
      /\ arrays.languages = languages
      /\ arrays.allCategories = allCategories

\* a render whose filter drops a snippet and whose sort reorders the rest
C18_Witness ==
  LET arrays == renderArrays
      kept == Filtered(snippets, searchTerm, selectedLanguage, selectedCategories,
                       showFavorites, includeCodeInSearch)
  IN  /\ Len(kept) >= 2
      /\ Len(kept) < Len(snippets)
      /\ arrays.result # kept
      /\ arrays.snippets = snippets

\* a parsed file the claim calls malformed
Malformed(data) ==
  \/ data.kind # "object"
  \/ data.version # "string"
  \/ data.snippetsKind # "array"
  \/ \E i \in 1..Len(data.items) :
       \/ data.items[i].kind # "object"
       \/ data.items[i].titleKind # "string"
       \/ data.items[i].fragmentsKind # "array"
       \/ data.items[i].categoriesKind # "array"

\* C19: when the file read is JSON but malformed (not an object, no string
\* version, no snippets array, or an entry without a string title, an array
\* fragments or an array categories), the run ends at once: addSnippet and
\* reloadSnippets are not called and one error toast is raised; the import
\* loop never runs on a malformed file.
C19_MalformedImportIsRejectedWhole ==
  [][/\ (importPc = "reading" /\ importFile.wellFormed /\ Malformed(importFile)) =>
          /\ addSnippetCalls' = addSnippetCalls
          /\ reloadSnippetsCalls' = reloadSnippetsCalls
          /\ Len(toasts') = Len(toasts) + 1
          /\ toasts'[Len(toasts')].type = "error"
          /\ importPc' = "idle"
     /\ importPc' = "adding" => ~Malformed(importFile')]_vars

\* a malformed file has been rejected after a valid one was imported
C19_Witness ==
  /\ lastEvent = "fileRead"
  /\ importPc = "idle"
  /\ Len(toasts) = 2
  /\ toasts[1].type = "success"
  /\ toasts[2] = Toast("Invalid import file format", "error", <<>>)
  /\ addSnippetCalls = <<G1, G2>>
  /\ reloadSnippetsCalls = 1

\* the place of a snippet in a collection
Position(seq, x) == CHOOSE k \in 1..Len(seq) : seq[k].id = x.id

\* two snippets with the same pin flag and the same secondary key
SameKey(a, b, order) ==
  /\ a.is_pinned = b.is_pinned
  /\ IF a.is_pinned = 1 \/ order \in {"newest", "oldest"}
     THEN a.updated_at = b.updated_at
     ELSE a.title = b.title

\* C21: two snippets of filteredSnippets with the same pin flag and the same
\* secondary key stand in the order they have in the input collection.
C21_SortIsStable ==
  LET out == filteredSnippets
  IN  \A i, j \in 1..Len(out) :
        (i < j /\ SameKey(out[i], out[j], sortOrder)) =>
          Position(snippets, out[i]) < Position(snippets, out[j])

\* T3 and T4 tie by title and are kept in input order, against their dates
C21_Witness ==
  /\ sortOrder = "alpha-asc"
  /\ snippets = <<T3, T2, T4>>
  /\ filteredSnippets = <<T2, T3, T4>>

\* the last n entries of a sequence
LastN(seq, n) == SubSeq(seq, Len(seq) - n + 1, Len(seq))

\* C22: in the import loop addSnippet is called for the entries of the file
\* one after the other, in file order: a call is made only when the file has
\* just been validated (the first entry) or the pending call has just
\* resolved or rejected (the next entry); while a call is pending the calls
\* of the run are the entries up to it, each once; a rejection is recorded
\* with the title of its entry and a message, and the loop goes on; the loop
\* ends only after the call for the last entry.
C22_ImportLoopIsSequential ==
  [][/\ addSnippetCalls' # addSnippetCalls =>
          /\ importPc' = "adding"
          /\ lastEvent' \in {"fileRead", "addSnippetResolved", "addSnippetRejected"}
          /\ addSnippetCalls' =
               Append(addSnippetCalls, importFile'.items[importProgress'.current + 1])
     /\ importPc' = "adding" =>
          /\ importProgress'.current < Len(importFile'.items)
          /\ Len(addSnippetCalls') >= importProgress'.current + 1
          /\ LastN(addSnippetCalls', importProgress'.current + 1)
               = SubSeq(importFile'.items, 1, importProgress'.current + 1)
     /\ (importPc = "reading" /\ importPc' = "adding") => importProgress'.current = 0
     /\ (importPc = "adding" /\ importPc' = "adding") =>
          /\ importProgress'.current = importProgress.current + 1
          /\ addSnippetCalls' # addSnippetCalls
          /\ lastEvent' = "addSnippetRejected" =>
               /\ Len(importProgress'.errors) = Len(importProgress.errors) + 1
               /\ LastN(importProgress'.errors, 1)[1].title
                    = importFile.items[importProgress.current + 1].title
               /\ LastN(importProgress'.errors, 1)[1].error
                    \in {"Request failed", "Unknown error"}
          /\ lastEvent' = "addSnippetResolved" =>
               importProgress'.errors = importProgress.errors
     /\ (importPc = "adding" /\ importPc' = "idle") =>
          importProgress.current + 1 = Len(importFile.items)]_vars

\* the call for the first entry was rejected and recorded, and the call for
\* the second entry is pending
C22_Witness ==
  /\ importPc = "adding"
  /\ lastEvent = "addSnippetRejected"
  /\ importFile.items = <<G1, G2>>
  /\ importProgress.current = 1
  /\ importProgress.errors = <<[title |-> "T1", error |-> "Request failed"]>>
  /\ addSnippetCalls = <<G1, G2>>

\* C23: whenever the import shows a progress, current = succeeded + failed,
\* errors has one entry for each failure and current <= total; current is 0
\* when the loop starts and grows by one with each call that ends; when the
\* loop ends the counts of the last toast add up to total.
C23_ImportProgressInvariant ==
  [][/\ importProgress'.shown =>
          /\ importProgress'.current
               = importProgress'.succeeded + importProgress'.failed
          /\ Len(importProgress'.errors) = importProgress'.failed
          /\ importProgress'.current <= importProgress'.total
          /\ importProgress'.total = Len(importFile'.items)
     /\ (importPc = "reading" /\ importPc' = "adding") => importProgress'.current = 0
     /\ (importPc = "adding" /\ importPc' = "adding") =>
          importProgress'.current = importProgress.current + 1
     /\ (importPc = "adding" /\ importPc' = "idle") =>
          LET args == LastN(toasts', 1)[1].args
          IN  /\ importProgress.current + 1 = importProgress.total
              /\ (IF Len(args) = 2 THEN args[1] + args[2] ELSE args[1])
                   = importProgress.total]_vars

\* two calls have ended, one resolved and one rejected, in a run that goes on
C23_Witness ==
  /\ importPc = "adding"
  /\ importProgress.shown
  /\ importProgress.total = 3
  /\ importProgress.current = 2
  /\ importProgress.succeeded = 1
  /\ importProgress.failed = 1
  /\ Len(importProgress.errors) = 1

\* an import run ends in this step
RunEnds == importPc # "idle" /\ importPc' = "idle"

\* the run that ends in this step had a valid file and no call that failed
RunSucceeds ==
  /\ importFile.wellFormed
  /\ ~Malformed(importFile)
  /\ \/ importPc = "reading"
     \/ /\ importPc = "adding"
        /\ importProgress.failed = 0
        /\ lastEvent' = "addSnippetResolved"

\* C24: reloadSnippets is called only in the step that ends an import run,
\* once, and exactly when the file was valid and no addSnippet call failed;
\* the end of a run of a valid file in which a call failed raises a warning
\* and does not call reloadSnippets.
C24_ReloadOnlyAfterFullSuccess ==
  [][/\ reloadSnippetsCalls' # reloadSnippetsCalls =>
          /\ RunEnds
          /\ reloadSnippetsCalls' = reloadSnippetsCalls + 1
     /\ RunEnds => (reloadSnippetsCalls' # reloadSnippetsCalls <=> RunSucceeds)
     /\ (RunEnds /\ importPc = "adding" /\ ~RunSucceeds) =>
          /\ LastN(toasts', 1)[1].type = "warning"
          /\ reloadSnippetsCalls' = reloadSnippetsCalls]_vars

\* a run of three entries has ended with one failure: a warning, no reload
C24_Witness ==
  /\ importPc = "idle"
  /\ lastEvent = "addSnippetResolved"
  /\ addSnippetCalls = <<G2, G1, G2>>
  /\ toasts = <<Toast("Imported ${progress.succeeded} snippets, ${progress.failed} failed. Check console for details.",
                      "warning", <<2, 1>>)>>
  /\ reloadSnippetsCalls = 0

\* C25: the step that ends an import run, whatever its outcome, leaves
\* importing false and importProgress null; importing is true exactly while a
\* run is under way, and a file is taken by the input only while importing is
\* false, so a run starts only when no run is under way.
C25_ImportStateIsResetAndRunsDoNotOverlap ==
  [][/\ RunEnds =>
          /\ ~importing'
          /\ importProgress' = NoProgress
          /\ Len(toasts') = Len(toasts) + 1
     /\ importing' <=> importPc' # "idle"
     /\ lastEvent' = "fileChosen" =>
          /\ ~importing
          /\ importPc = "idle"
          /\ importPc' = "reading"]_vars

\* a second run is under way after a first one ended in the catch block
C25_Witness ==
  /\ importing
  /\ importPc = "adding"
  /\ Len(toasts) = 1
  /\ toasts[1].type = "error"
  /\ importProgress.shown

\* C26: no call of onPermanentDeleteAll is given an empty collection, however
\* the clicks on "Clear all", the confirmations and the refreshes of the
\* snapshot interleave.
C26_DeleteAllNeverGivenEmptyCollection ==
  \A i \in 1..Len(deleteAllCalls) : Len(deleteAllCalls[i]) > 0

\* the URL parameter that holds a selection: absent when the text is empty
Holds(text) == IF text # <<>> THEN Param(text) ELSE NoParam

\* C27 (as claimed): a step of handleCategoryClick or handleLanguageChange
\* leaves searchTerm and sortOrder, and either the language with its URL
\* parameter (a category click) or the categories with their URL parameter (a
\* language change), as they were (stated for the URLs without an empty
\* parameter, which already refute it).
C27_HandlersLeaveOtherParameter ==
  [][(/\ lastEvent' = "input"
      /\ searchParams.categories # Param(<<>>)
      /\ searchParams.language # Param(<<>>)) =>
       /\ UNCHANGED <<searchTerm, sortOrder>>
       /\ \/ /\ selectedLanguage' = selectedLanguage
             /\ searchParams'.language = searchParams.language
          \/ /\ selectedCategories' = selectedCategories
             /\ searchParams'.categories = searchParams.categories]_vars

\* C27 (amended): a step of handleCategoryClick or handleLanguageChange leaves
\* searchTerm and sortOrder as they were; a category click leaves
\* selectedLanguage and writes it as the language parameter, a language
\* change leaves selectedCategories and writes their join as the categories
\* parameter (each absent when empty), so the other parameter is unchanged
\* when it agreed with the state; after the step the URL holds both
\* selections.
C27_HandlersRewriteBothFromState ==
  [][lastEvent' = "input" =>
       /\ UNCHANGED <<searchTerm, sortOrder>>
       /\ \/ /\ selectedLanguage' = selectedLanguage
             /\ searchParams'.language = Holds(selectedLanguage)
          \/ /\ selectedCategories' = selectedCategories
             /\ searchParams'.categories = Holds(Join(selectedCategories))
       /\ searchParams'.language = Holds(selectedLanguage')
       /\ Join(selectedCategories') # <<>> =>
            searchParams'.categories = Param(Join(selectedCategories'))
       /\ Join(selectedCategories') = <<>> =>
            searchParams'.categories \in {NoParam, Param(<<>>)}]_vars

\* toggles and a language change have left a URL with both selections
C27_Witness ==
  /\ lastEvent = "input"
  /\ selectedCategories = <<catA, catC>>
  /\ selectedLanguage = sPython
  /\ searchParams = [categories |-> Param(Join(<<catA, catC>>)),
                     language |-> Param(sPython)]

\* C28: the effective theme of a component is its theme when that is light,
\* dark or blue, and dark or light by the current prefers-color-scheme match
\* when the theme is 'system'.
C28_EffectiveThemeTracksPreference ==
  \A c \in Components :
    effectiveTheme[c] = IF theme[c] = "system" THEN MatchTheme(prefersDark)
                        ELSE theme[c]

\* every fetch the component has issued has completed
AllCompleted(c) == \A n \in 1..Len(requests[c]) : requests[c][n] # "pending"

\* C29: once every fetch of EmbedView has completed, the view renders the
\* outcome of the fetch issued last: its snippet and no error when it
\* succeeded, its error message when it failed.
C29_RendersLatestFetch ==
  AllCompleted("EmbedView") =>
    LET last == Len(requests["EmbedView"])
    IN  IF requests["EmbedView"][last] = "ok"
        THEN error["EmbedView"] = Null /\ embedSnippet = last
        ELSE error["EmbedView"] = last

\* C30: in ChangelogModal isLoading is true whenever a releases fetch is in
\* flight, and false once a fetch has been issued and none is pending.
C30_LoadingWhileFetchInFlight ==
  LET r == requests["ChangelogModal"]
  IN  /\ (\E n \in 1..Len(r) : r[n] = "pending") => isLoading = TRUE
      /\ (Len(r) > 0 /\ AllCompleted("ChangelogModal")) => isLoading = FALSE

====
